---- MODULE Spec2Model ----
(***************************************************************************)
(* Model of capture-visuals.js: the command-line driver that resolves its  *)
(* input documents (main, findHtmlFiles) and, for each one, launches a     *)
(* headless browser, queries the elements whose id starts with one of the  *)
(* configured prefixes and screenshots each of them (captureVisuals).      *)
(*                                                                         *)
(* A path is a sequence of components and a component is a sequence of     *)
(* tokens, so that "a.html" is <<"a", ".html">> and path.basename,         *)
(* String.endsWith and String.startsWith are computed on tokens.           *)
(***************************************************************************)
EXTENDS Integers, Sequences, FiniteSets, TLC

VARIABLES
  args,            \* process.argv.slice(2)
  fs,              \* the articles/ directories on disk
  dom,             \* ids of the elements carrying an id, per document
  pc,              \* position of main
  exitCode,        \* process exit status, NoExit while running
  filesToProcess,  \* main's filesToProcess
  scanned,         \* directories handed to findHtmlFiles, in order
  calls,           \* files handed to captureVisuals, in order
  fileIdx,         \* position of main's for loop in filesToProcess
  cpc,             \* position of captureVisuals
  elements,        \* captureVisuals' elements
  elemIdx,         \* position of the capture loop in elements
  found,           \* elements of each processed file, in order
  attempts,        \* one record per iteration of the capture loop
  written,         \* PNG files on disk
  dirsMade,        \* output directories on disk
  launchCalls,     \* file positions for which puppeteer.launch was called
  launched,        \* browser instances launched
  open,            \* browser instances launched and not closed
  threw,           \* the awaited call that threw, and for which file
  run,             \* number of the current invocation of the script
  prevWritten      \* PNG files on disk when the previous invocation ended

vars == <<args, fs, dom, pc, exitCode, filesToProcess, scanned, calls,
          fileIdx, cpc, elements, elemIdx, found, attempts, written,
          dirsMade, launchCalls, launched, open, threw, run, prevWritten>>

----------------------------------------------------------------------------
(* Bounds *)

MaxArgs == 3
MaxElems == 2
MaxElemsOther == 1
MaxRuns == 2

----------------------------------------------------------------------------
(* Configuration and vocabulary *)

CONFIG ==
  [capturePatterns |-> <<"poster-", "visual-", "code-", "logo-", "brand-">>,
   outputDir |-> <<"images">>,
   scale |-> 2]

NoExit == 0 - 1
NoPath == <<>>
NoThrow == [stage |-> "none", f |-> 0]

Range(s) == {s[i] : i \in DOMAIN s}
BSeq(S, n) == UNION {[1..k -> S] : k \in 0..n}

NameA == <<"a", ".html">>
NameB == <<"b", ".html">>
NameRaw == <<"a">>
AllNames == <<NameRaw, NameA, NameB>>

IdPoster == <<"poster-", "x">>
IdVisual == <<"visual-", "y">>
IdNav == <<"nav-", "z">>
Ids == {IdPoster, IdVisual, IdNav}

Root == <<"/">>
ScriptDirname == <<Root, <<"script">>>>
Cwd == <<Root, <<"cwd">>>>

----------------------------------------------------------------------------
(* Library functions as the script uses them *)

join(dir, rest) == dir \o rest

resolve(p) == IF p # <<>> /\ p[1] = Root THEN p ELSE join(Cwd, p)

dirname(p) == SubSeq(p, 1, Len(p) - 1)

basename(p, ext) ==
  LET name == p[Len(p)]
  IN  IF p = <<<<ext>>>> THEN <<>>
      ELSE IF Len(name) > 1 /\ name[Len(name)] = ext
           THEN SubSeq(name, 1, Len(name) - 1)
           ELSE name

endsWith(file, ext) == Len(file) > 0 /\ file[Len(file)] = ext

startsWith(id, pattern) == Len(id) > 0 /\ id[1] = pattern

ArticlesDirs == {join(ScriptDirname, <<<<"articles">>>>),
                 join(Cwd, <<<<"articles">>>>)}

Docs == {join(d, <<n>>) : d \in ArticlesDirs, n \in Range(AllNames)}

existsSync(p) ==
  LET a == resolve(p)
  IN  \/ a \in dirsMade
      \/ a \in written
      \/ a \in DOMAIN fs /\ fs[a].exists
      \/ /\ Len(a) > 1
         /\ dirname(a) \in DOMAIN fs
         /\ fs[dirname(a)].exists
         /\ a[Len(a)] \in Range(fs[dirname(a)].files)

----------------------------------------------------------------------------
(* captureVisuals: derived values *)

absolutePath(htmlFile) == resolve(htmlFile)

\* Mutant: the output directory without the per-document base name.
outputDirNoBase(htmlFile) ==
  join(dirname(absolutePath(htmlFile)), <<CONFIG.outputDir>>)

outputDir(htmlFile) ==
  join(dirname(absolutePath(htmlFile)),
       <<CONFIG.outputDir, basename(htmlFile, ".html")>>)

outputPath(htmlFile, id) == join(outputDir(htmlFile), <<id \o <<".png">>>>)

\* Mutant: every element carrying an id is taken.
matchesAny(id) == Len(id) > 0

matches(id) ==
  \E i \in DOMAIN CONFIG.capturePatterns :
    startsWith(id, CONFIG.capturePatterns[i])

queryElements(doc) == SelectSeq(dom[doc], matches)

----------------------------------------------------------------------------
(* main: input resolution *)

\* Mutant: the arguments are taken as they are.
filterNone(a) == a

filterExisting(a) == SelectSeq(a, existsSync)

RECURSIVE mapJoin(_, _)
mapJoin(dir, names) ==
  IF names = <<>> THEN <<>>
  ELSE <<join(dir, <<Head(names)>>)>> \o mapJoin(dir, Tail(names))

\* Mutant: every entry of articles/ is taken, whatever its extension.
findHtmlFilesNoFilter(dir) ==
  LET articlesDir == join(dir, <<<<"articles">>>>)
  IN  IF ~existsSync(articlesDir) THEN <<>>
      ELSE mapJoin(articlesDir, fs[articlesDir].files)

findHtmlFiles(dir) ==
  LET articlesDir == join(dir, <<<<"articles">>>>)
      isHtml(file) == endsWith(file, ".html")
  IN  IF ~existsSync(articlesDir) THEN <<>>
      ELSE mapJoin(articlesDir, SelectSeq(fs[articlesDir].files, isHtml))

exit(code) == pc' = "exited" /\ exitCode' = code

ResolveArgs ==
  /\ pc = "main"
  /\ Len(args) > 0
  /\ filesToProcess' = filterExisting(args)
  /\ IF Len(filesToProcess') = 0
     THEN exit(1)
     ELSE pc' = "loop" /\ exitCode' = exitCode
  /\ UNCHANGED <<threw, args, fs, dom, scanned, calls, fileIdx, cpc, elements,
                 elemIdx, found, attempts, written, dirsMade, launchCalls,
                 launched, open, run, prevWritten>>

ScanScriptDir ==
  /\ pc = "main"
  /\ Len(args) = 0
  /\ filesToProcess' = findHtmlFiles(ScriptDirname)
  /\ scanned' = Append(scanned, ScriptDirname)
  /\ pc' = IF Len(filesToProcess') = 0 THEN "scancwd" ELSE "loop"
  /\ UNCHANGED <<threw, args, fs, dom, exitCode, calls, fileIdx, cpc, elements,
                 elemIdx, found, attempts, written, dirsMade, launchCalls,
                 launched, open, run, prevWritten>>

ScanCwd ==
  /\ pc = "scancwd"
  /\ filesToProcess' = findHtmlFiles(Cwd)
  /\ scanned' = Append(scanned, Cwd)
  /\ IF Len(filesToProcess') = 0
     THEN exit(1)
     ELSE pc' = "loop" /\ exitCode' = exitCode
  /\ UNCHANGED <<threw, args, fs, dom, calls, fileIdx, cpc, elements,
                 elemIdx, found, attempts, written, dirsMade, launchCalls,
                 launched, open, run, prevWritten>>

----------------------------------------------------------------------------
(* main: the loop over filesToProcess and the top-level catch *)

CallCaptureVisuals ==
  /\ pc = "loop"
  /\ cpc = "idle"
  /\ fileIdx <= Len(filesToProcess)
  /\ cpc' = "mkdir"
  /\ calls' = Append(calls, filesToProcess[fileIdx])
  /\ UNCHANGED <<threw, args, fs, dom, pc, exitCode, filesToProcess, scanned,
                 fileIdx, elements, elemIdx, found, attempts, written,
                 dirsMade, launchCalls, launched, open, run, prevWritten>>

MainDone ==
  /\ pc = "loop"
  /\ cpc = "idle"
  /\ fileIdx > Len(filesToProcess)
  /\ exit(0)
  /\ UNCHANGED <<threw, args, fs, dom, filesToProcess, scanned, calls, fileIdx,
                 cpc, elements, elemIdx, found, attempts, written, dirsMade,
                 launchCalls, launched, open, run, prevWritten>>

\* Mutant: the catch handler prints the error and does not set the status.
OnThrowExitZero ==
  /\ exit(0)
  /\ UNCHANGED <<fileIdx, cpc, elemIdx>>

\* Mutant: a failed document is skipped and the loop goes on.
OnThrowContinue ==
  /\ cpc' = "idle"
  /\ fileIdx' = fileIdx + 1
  /\ UNCHANGED <<pc, exitCode, elemIdx>>

\* An error thrown out of captureVisuals rejects main's promise: the catch
\* handler prints it and exits with status 1.  The call that threw never
\* returned, so captureVisuals stays where it was.
OnThrow ==
  /\ exit(1)
  /\ UNCHANGED <<fileIdx, cpc, elemIdx>>

\* The awaited call of this stage throws.
Throws(stage) ==
  /\ threw' = [stage |-> stage, f |-> fileIdx]
  /\ OnThrow

\* A call of captureVisuals that returned normally.
Returned(next) ==
  /\ cpc' = next
  /\ UNCHANGED <<pc, exitCode, fileIdx, elemIdx, threw>>

----------------------------------------------------------------------------
(* captureVisuals *)

htmlFile == filesToProcess[fileIdx]

InCapture(stage) == pc = "loop" /\ cpc = stage

MkDir ==
  /\ InCapture("mkdir")
  /\ \/ /\ dirsMade' = IF existsSync(outputDir(htmlFile))
                       THEN dirsMade
                       ELSE dirsMade \cup {outputDir(htmlFile),
                                           dirname(outputDir(htmlFile))}
        /\ Returned("launch")
     \/ /\ ~existsSync(outputDir(htmlFile))
        /\ Throws("mkdir")
        /\ UNCHANGED dirsMade
  /\ UNCHANGED <<args, fs, dom, filesToProcess, scanned, calls, elements,
                 found, attempts, written, launchCalls, launched, open,
                 run, prevWritten>>

Launch ==
  /\ InCapture("launch")
  /\ launchCalls' = Append(launchCalls, fileIdx)
  /\ \/ /\ launched' = launched + 1
        /\ open' = open + 1
        /\ Returned("newPage")
     \/ /\ Throws("launch")
        /\ UNCHANGED <<launched, open>>
  /\ UNCHANGED <<args, fs, dom, filesToProcess, scanned, calls, elements,
                 found, attempts, written, dirsMade, run, prevWritten>>

\* A browser call that changes nothing the script reads: it returns or throws.
BrowserCall(stage, next) ==
  /\ InCapture(stage)
  /\ \/ Returned(next)
     \/ Throws(stage)
  /\ UNCHANGED <<args, fs, dom, filesToProcess, scanned, calls, elements,
                 found, attempts, written, dirsMade, launchCalls, launched,
                 open, run, prevWritten>>

NewPage == BrowserCall("newPage", "setViewport")

SetViewport == BrowserCall("setViewport", "goto")

Goto == BrowserCall("goto", "fonts")

FontsReady == BrowserCall("fonts", "settle")

Settle ==
  /\ InCapture("settle")
  /\ Returned("evaluate")
  /\ UNCHANGED <<threw, args, fs, dom, filesToProcess, scanned, calls, elements,
                 found, attempts, written, dirsMade, launchCalls, launched,
                 open, run, prevWritten>>

Evaluate ==
  /\ InCapture("evaluate")
  /\ \/ /\ elements' = queryElements(absolutePath(htmlFile))
        /\ found' = Append(found, elements')
        /\ cpc' = IF Len(elements') = 0 THEN "close" ELSE "capture"
        /\ elemIdx' = 1
        /\ UNCHANGED <<pc, exitCode, fileIdx, threw>>
     \/ /\ Throws("evaluate")
        /\ UNCHANGED <<elements, found>>
  /\ UNCHANGED <<args, fs, dom, filesToProcess, scanned, calls, attempts,
                 written, dirsMade, launchCalls, launched, open, run,
                 prevWritten>>

Outcomes == {"ok", "notfound", "error"}

\* Mutant: the first failure leaves the loop.
ElementControlBreak(res) ==
  /\ elemIdx' = IF res = "ok" THEN elemIdx + 1 ELSE Len(elements) + 1
  /\ cpc' = IF res = "ok" /\ elemIdx < Len(elements) THEN "capture" ELSE "close"
  /\ UNCHANGED <<pc, exitCode, fileIdx>>

\* Mutant: no try/catch around the screenshot, its error reaches main.
ElementControlPropagate(res) ==
  IF res = "error"
  THEN exit(1) /\ UNCHANGED <<fileIdx, cpc, elemIdx>>
  ELSE /\ elemIdx' = elemIdx + 1
       /\ cpc' = IF elemIdx = Len(elements) THEN "close" ELSE "capture"
       /\ UNCHANGED <<pc, exitCode, fileIdx>>

\* What the loop does after an iteration ended with outcome res: the else
\* branch and the catch clause only log, so the loop goes on to the next
\* element whatever the outcome.
ElementControl(res) ==
  /\ elemIdx' = elemIdx + 1
  /\ cpc' = IF elemIdx = Len(elements) THEN "close" ELSE "capture"
  /\ UNCHANGED <<pc, exitCode, fileIdx>>

\* Mutant: the capture empties the disk of earlier captures.
screenshotAlone(path) == {path}

\* The files on disk after elementHandle.screenshot({path}) returned.
screenshot(path) == written \cup {path}

CaptureElement ==
  /\ InCapture("capture")
  /\ elemIdx <= Len(elements)
  /\ \E res \in Outcomes :
       LET element == elements[elemIdx]
           path == outputPath(htmlFile, element)
       IN  /\ written' = IF res = "ok" THEN screenshot(path) ELSE written
           /\ attempts' = Append(attempts,
                                 [f |-> fileIdx, i |-> elemIdx, id |-> element,
                                  res |-> res,
                                  out |-> IF res = "ok" THEN path ELSE NoPath])
           /\ ElementControl(res)
  /\ UNCHANGED <<threw, args, fs, dom, filesToProcess, scanned, calls, elements,
                 found, dirsMade, launchCalls, launched, open, run,
                 prevWritten>>

\* Mutant: the browser is never closed.
closeBrowserLeak == open

\* open after browser.close() returned
closeBrowser == open - 1

Close ==
  /\ InCapture("close")
  /\ \/ /\ open' = closeBrowser
        /\ cpc' = "idle"
        /\ fileIdx' = fileIdx + 1
        /\ UNCHANGED <<pc, exitCode, elemIdx, threw>>
     \/ /\ Throws("close")
        /\ UNCHANGED open
  /\ UNCHANGED <<args, fs, dom, filesToProcess, scanned, calls, elements,
                 found, attempts, written, dirsMade, launchCalls, launched,
                 run, prevWritten>>

\* The script is invoked again on the same disk: the process state starts
\* afresh, the files written so far stay.
Restart ==
  /\ pc = "exited"
  /\ run < MaxRuns
  /\ run' = run + 1
  /\ prevWritten' = written
  /\ pc' = "main"
  /\ exitCode' = NoExit
  /\ filesToProcess' = <<>>
  /\ scanned' = <<>>
  /\ calls' = <<>>
  /\ fileIdx' = 1
  /\ cpc' = "idle"
  /\ elements' = <<>>
  /\ elemIdx' = 1
  /\ found' = <<>>
  /\ attempts' = <<>>
  /\ launchCalls' = <<>>
  /\ launched' = 0
  /\ open' = 0
  /\ threw' = NoThrow
  /\ UNCHANGED <<args, fs, dom, written, dirsMade>>

----------------------------------------------------------------------------
(* Initial states *)

RECURSIVE pick(_, _)
pick(s, S) ==
  IF s = <<>> THEN <<>>
  ELSE (IF Head(s) \in S THEN <<Head(s)>> ELSE <<>>) \o pick(Tail(s), S)

Listings == {pick(AllNames, S) : S \in SUBSET Range(AllNames)}

DirStates == {[exists |-> FALSE, files |-> <<>>]}
             \cup {[exists |-> TRUE, files |-> l] : l \in Listings}

ScriptArticles == join(ScriptDirname, <<<<"articles">>>>)
CwdArticles == join(Cwd, <<<<"articles">>>>)

ArgA == <<<<"articles">>, NameA>>
ArgB == <<<<"articles">>, NameB>>
ArgRaw == <<<<"articles">>, NameRaw>>
ArgPaths == {ArgA, ArgB, ArgRaw}

Doms(n) == BSeq(Ids, n)

InitWith(a, f, d) ==
  /\ args = a
  /\ fs = f
  /\ dom = d
  /\ pc = "main"
  /\ exitCode = NoExit
  /\ filesToProcess = <<>>
  /\ scanned = <<>>
  /\ calls = <<>>
  /\ fileIdx = 1
  /\ cpc = "idle"
  /\ elements = <<>>
  /\ elemIdx = 1
  /\ found = <<>>
  /\ attempts = <<>>
  /\ written = {}
  /\ dirsMade = {}
  /\ launchCalls = <<>>
  /\ launched = 0
  /\ open = 0
  /\ threw = NoThrow
  /\ run = 1
  /\ prevWritten = {}

MkFs(s, c) == (ScriptArticles :> s) @@ (CwdArticles :> c)

\* Inputs of main: every argument list and every state of the two articles/
\* directories; every document holds one capturable element.
InitInput ==
  \E a \in BSeq(ArgPaths, MaxArgs), s \in DirStates, c \in DirStates :
    /\ a # <<>> => s = [exists |-> TRUE, files |-> <<NameB>>]
    /\ InitWith(a, MkFs(s, c), [d \in Docs |-> <<IdPoster>>])

\* Inputs of captureVisuals: every document content; the files are there.
CaptureArgs == {<<>>, <<ArgA>>, <<ArgA, ArgRaw>>, <<ArgA, ArgA>>}
CaptureFs == MkFs([exists |-> FALSE, files |-> <<>>],
                  [exists |-> TRUE, files |-> AllNames])

DomOf(x, y) ==
  [d \in Docs |-> IF d = join(CwdArticles, <<NameA>>) THEN x ELSE y]

InitCapture ==
  \E a \in CaptureArgs, x \in Doms(MaxElems), y \in Doms(MaxElemsOther) :
    /\ (a # <<>> /\ \A i \in DOMAIN a : a[i] = ArgA) => y = <<>>
    /\ InitWith(a, CaptureFs, DomOf(x, y))

\* The same with one capturable element in every document but a.html.
InitFair ==
  \E a \in CaptureArgs, x \in Doms(MaxElems) :
    InitWith(a, CaptureFs, DomOf(x, <<IdPoster>>))

RerunArgs == {<<>>, <<ArgA>>}
RerunFs == MkFs([exists |-> FALSE, files |-> <<>>],
                [exists |-> TRUE, files |-> <<NameRaw, NameA>>])

InitRerun ==
  \E a \in RerunArgs, x \in Doms(MaxElems) :
    InitWith(a, RerunFs, DomOf(x, <<>>))

----------------------------------------------------------------------------
(* Specifications *)

Next ==
  \/ ResolveArgs
  \/ ScanScriptDir
  \/ ScanCwd
  \/ CallCaptureVisuals
  \/ MainDone
  \/ MkDir
  \/ Launch
  \/ NewPage
  \/ SetViewport
  \/ Goto
  \/ FontsReady
  \/ Settle
  \/ Evaluate
  \/ CaptureElement
  \/ Close

NextRerun == Next \/ Restart

SpecInput == InitInput /\ [][Next]_vars

SpecCapture == InitCapture /\ [][Next]_vars

SpecRerun == InitRerun /\ [][NextRerun]_vars

\* Every awaited call returns or throws, so a step that can be taken is taken.
FairCapture == InitFair /\ [][Next]_vars /\ WF_vars(Next)

----------------------------------------------------------------------------
(* Views of the state used by the properties *)

\* The state of the k-th input file in pending -> loading -> ready ->
\* capturing -> done, read off the positions of main and captureVisuals.
FileState(k) ==
  IF k < fileIdx THEN "done"
  ELSE IF k > fileIdx \/ cpc \in {"idle", "mkdir"} THEN "pending"
  ELSE IF cpc \in {"launch", "newPage", "setViewport", "goto", "fonts",
                   "settle"} THEN "loading"
  ELSE IF cpc = "evaluate" THEN "ready"
  ELSE "capturing"

NextState(st) ==
  CASE st = "pending" -> "loading"
    [] st = "loading" -> "ready"
    [] st = "ready" -> "capturing"
    [] st = "capturing" -> "done"
    [] OTHER -> "done"

AttemptsOf(k) ==
  LET ofFile(a) == a.f = k
  IN  SelectSeq(attempts, ofFile)

WritesOf(k) ==
  {attempts[i].out : i \in {j \in DOMAIN attempts :
                              attempts[j].f = k /\ attempts[j].res = "ok"}}

AllSucceeded(k) ==
  /\ Len(AttemptsOf(k)) = Len(found[k])
  /\ \A i \in DOMAIN attempts : attempts[i].f = k => attempts[i].res = "ok"

Failed(k) ==
  \E i \in DOMAIN attempts : attempts[i].f = k /\ attempts[i].res # "ok"

\* Positions in filesToProcess that the capture specifications fill.
FileSlots == {1, 2}

LoadStages == {"launch", "newPage", "setViewport", "goto", "fonts"}
ThrowingStages == LoadStages \cup {"mkdir", "evaluate", "close"}

\* An argument names a file of one of the articles/ directories on disk.
OnDisk(p) ==
  LET a == IF p[1] = Root THEN p ELSE Cwd \o p
  IN  \E d \in DOMAIN fs :
        /\ fs[d].exists
        /\ \E i \in DOMAIN fs[d].files : a = d \o <<fs[d].files[i]>>

ExistingIdx == {i \in 1..Len(args) : OnDisk(args[i])}

Rank(i) == Cardinality({m \in ExistingIdx : m <= i})

HtmlIn(d) ==
  IF fs[d].exists
  THEN {d \o <<fs[d].files[i]>> :
          i \in {j \in DOMAIN fs[d].files :
                   fs[d].files[j][Len(fs[d].files[j])] = ".html"}}
  ELSE {}

IsPrefix(s, t) == Len(s) <= Len(t) /\ s = SubSeq(t, 1, Len(s))

----------------------------------------------------------------------------
(* Properties *)

\* C1: a failed element (handle not found, or screenshot throws) never stops
\* the loop: for every processed document the attempts are its matched
\* elements, each once and in discovery order, whatever the earlier outcomes,
\* and an element failure never ends the run, so later files are attempted.
C1_EveryElementAttempted ==
  /\ \A k \in 1..Len(found) :
       /\ IsPrefix([i \in 1..Len(AttemptsOf(k)) |-> AttemptsOf(k)[i].id],
                   found[k])
       /\ \A i \in 1..Len(AttemptsOf(k)) : AttemptsOf(k)[i].i = i
       /\ (k < fileIdx \/ (k = fileIdx /\ cpc = "close"))
            => Len(AttemptsOf(k)) = Len(found[k])
       /\ (k = fileIdx /\ cpc = "capture")
            => Len(AttemptsOf(k)) = elemIdx - 1
  /\ \A i \in 1..Len(attempts) : \A j \in i..Len(attempts) :
       attempts[i].f <= attempts[j].f
  /\ (pc = "exited" /\ threw = NoThrow /\ filesToProcess # <<>>)
       => /\ Len(found) = Len(filesToProcess)
          /\ fileIdx = Len(filesToProcess) + 1

C1_Witness ==
  /\ pc = "exited"
  /\ exitCode = 0
  /\ Len(attempts) >= 3
  /\ attempts[1].f = 1 /\ attempts[1].res = "error"
  /\ attempts[2].f = 1 /\ attempts[2].res = "ok"
  /\ attempts[3].f = 2

\* C2: a finished run has status 0 or 1; it has status 1 exactly when no
\* input file was resolved or a call outside the per-element try/catch threw;
\* with status 0 every resolved file was processed, element failures or not.
C2_ExitStatus ==
  pc = "exited" =>
    /\ exitCode \in {0, 1}
    /\ exitCode = 1 <=> (filesToProcess = <<>> \/ threw # NoThrow)
    /\ threw # NoThrow => threw.stage \in ThrowingStages
    /\ exitCode = 0 => /\ calls = filesToProcess
                       /\ fileIdx = Len(filesToProcess) + 1

C2_Witness ==
  /\ pc = "exited"
  /\ exitCode = 0
  /\ \E i \in DOMAIN attempts : attempts[i].res = "error"
  /\ \E i \in DOMAIN attempts : attempts[i].res = "notfound"

\* C3: with arguments, filesToProcess is the arguments that exist on disk, in
\* argument order; no directory is scanned; the files handed to
\* captureVisuals are a prefix of them, all of them when the run ends with
\* status 0; missing arguments alone cause no error; the run exits with
\* status 1 having processed nothing if and only if no argument exists.
C3_ArgsFiltered ==
  Len(args) > 0 =>
    /\ scanned = <<>>
    /\ pc # "main" =>
         /\ Len(filesToProcess) = Cardinality(ExistingIdx)
         /\ \A i \in ExistingIdx : filesToProcess[Rank(i)] = args[i]
    /\ IsPrefix(calls, filesToProcess)
    /\ (pc = "exited" /\ exitCode = 0) => calls = filesToProcess
    /\ (pc = "exited" /\ ExistingIdx # {} /\ threw = NoThrow) => exitCode = 0
    /\ (pc = "exited" /\ exitCode = 1 /\ calls = <<>>)
         <=> (pc # "main" /\ ExistingIdx = {})

C3_Witness ==
  /\ Len(args) = 3
  /\ ExistingIdx = {2, 3}
  /\ args[2] # args[3]
  /\ pc = "exited"
  /\ exitCode = 0
  /\ calls = <<args[2], args[3]>>

\* C4: when a call of the loading phase (launch, newPage, setViewport, goto,
\* fonts) throws for the k-th file, the run ends with status 1; only the
\* files 1..k were handed to captureVisuals and launched, each once; no
\* element of file k or later was queried or captured; the files written for
\* the earlier documents are on disk.
C4_LoadFailureAborts ==
  threw.stage \in LoadStages =>
    /\ pc = "exited"
    /\ exitCode = 1
    /\ Len(calls) = threw.f
    /\ launchCalls = [i \in 1..threw.f |-> i]
    /\ Len(found) = threw.f - 1
    /\ \A i \in DOMAIN attempts :
         /\ attempts[i].f < threw.f
         /\ attempts[i].res = "ok" => attempts[i].out \in written

C4_Witness ==
  /\ threw.stage = "goto"
  /\ threw.f = 2
  /\ Len(filesToProcess) = 3
  /\ written # {}

\* The document of the k-th input file, and the ids the query must match in it.
DocOf(k) ==
  IF filesToProcess[k][1] = Root THEN filesToProcess[k]
  ELSE Cwd \o filesToProcess[k]

Prefixes == {"poster-", "visual-", "code-", "logo-", "brand-"}

MatchedIdx(k) == {i \in DOMAIN dom[DocOf(k)] : dom[DocOf(k)][i][1] \in Prefixes}

MatchedIds(k) == {dom[DocOf(k)][i] : i \in MatchedIdx(k)}

\* The file name with only a trailing ".html" removed.
Stem(name) ==
  IF Len(name) > 1 /\ name[Len(name)] = ".html"
  THEN [i \in 1..(Len(name) - 1) |-> name[i]]
  ELSE name

DirOf(k) == [i \in 1..(Len(DocOf(k)) - 1) |-> DocOf(k)[i]]

StemOf(k) == Stem(DocOf(k)[Len(DocOf(k))])

\* <dir>/images/<baseName>/<id>.png
ExpectedDir(k) == DirOf(k) \o <<<<"images">>, StemOf(k)>>

ExpectedPng(k, id) == ExpectedDir(k) \o <<id \o <<".png">>>>

OkIds(k) ==
  {attempts[i].id : i \in {j \in DOMAIN attempts :
                             attempts[j].f = k /\ attempts[j].res = "ok"}}

\* C5 as stated: a processed document with N matched elements, all captured
\* successfully, has exactly N files written.
C5_Original ==
  \A k \in 1..Len(found) :
    (k < fileIdx /\ AllSucceeded(k))
      => Cardinality(WritesOf(k)) = Cardinality(MatchedIdx(k))

\* C5 (amended): the files written for a processed document are the
\* <outputDir>/<id>.png of the matched ids whose capture succeeded, and they
\* are on disk; when all captures succeed there is one file per distinct
\* matched id; with no matched element the output directory exists and
\* nothing was written for the document.
C5_FilesWritten ==
  \A k \in 1..Len(found) :
    /\ Len(found[k]) = Cardinality(MatchedIdx(k))
    /\ OkIds(k) \subseteq MatchedIds(k)
    /\ WritesOf(k) = {ExpectedPng(k, id) : id \in OkIds(k)}
    /\ WritesOf(k) \subseteq written
    /\ ExpectedDir(k) \in dirsMade
    /\ k < fileIdx =>
         /\ AllSucceeded(k) =>
              /\ OkIds(k) = MatchedIds(k)
              /\ Cardinality(WritesOf(k)) = Cardinality(MatchedIds(k))
         /\ MatchedIdx(k) = {} => WritesOf(k) = {}

C5_Witness ==
  /\ pc = "exited"
  /\ exitCode = 0
  /\ Len(found) = 2
  /\ Len(found[1]) = 2 /\ found[1][1] = found[1][2]
  /\ AllSucceeded(1)
  /\ Cardinality(WritesOf(1)) = 1
  /\ MatchedIdx(2) = {} /\ dom[DocOf(2)] # <<>>
  /\ ExpectedDir(2) \in dirsMade

\* C6 as stated: each file moves through pending, loading, ready, capturing,
\* done in order, and a file that reached ready eventually reaches done.
C6_Original ==
  /\ [][\A k \in 1..Len(filesToProcess) :
          FileState(k)' \in {FileState(k), NextState(FileState(k))}]_vars
  /\ \A k \in FileSlots :
       (k <= Len(filesToProcess) /\ FileState(k) = "ready")
         ~> (FileState(k) = "done")

\* C6 (amended): each file moves through pending, loading, ready, capturing,
\* done in order, no state skipped or revisited, and a file that reached
\* ready eventually reaches done whatever element captures fail, unless the
\* element query or browser.close() itself throws.
C6_StateMachine ==
  /\ [][\A k \in 1..Len(filesToProcess) :
          FileState(k)' \in {FileState(k), NextState(FileState(k))}]_vars
  /\ \A k \in FileSlots :
       (k <= Len(filesToProcess) /\ FileState(k) = "ready")
         ~> \/ FileState(k) = "done"
            \/ threw.f = k /\ threw.stage \in {"evaluate", "close"}

C6_Witness ==
  /\ Len(filesToProcess) = 2
  /\ FileState(1) = "done"
  /\ FileState(2) = "capturing"
  /\ \E i \in DOMAIN attempts : attempts[i].f = 1 /\ attempts[i].res = "error"
  /\ \E i \in DOMAIN attempts : attempts[i].f = 1 /\ attempts[i].res = "notfound"

\* C7 as stated: after the second run the files on disk are those that were
\* there after the first run.
C7_Original ==
  (run = 2 /\ pc = "exited") => written = prevWritten

\* C7 (amended): a later run never removes a file; after it the files on
\* disk are those of the run before plus those of its own successful
\* captures, hence the same set whenever every capture that succeeds in it
\* had succeeded before.
C7_Rerun ==
  run >= 2 =>
    /\ prevWritten \subseteq written
    /\ written = prevWritten \cup UNION {WritesOf(k) : k \in 1..Len(found)}
    /\ (pc = "exited"
        /\ \A k \in 1..Len(found) : WritesOf(k) \subseteq prevWritten)
         => written = prevWritten

C7_Witness ==
  /\ run = 2
  /\ pc = "exited"
  /\ exitCode = 0
  /\ Cardinality(prevWritten) = 2
  /\ WritesOf(1) = prevWritten
  /\ written = prevWritten

\* C8: without arguments, filesToProcess is the .html files of articles/
\* under the script's directory when there is one; articles/ under the
\* working directory is scanned only when the first scan found none; the run
\* exits with status 1 having processed nothing exactly when both found none.
C8_ScanOrder ==
  Len(args) = 0 =>
    /\ pc = "main" => scanned = <<>>
    /\ pc # "main" =>
         IF HtmlIn(ScriptArticles) # {}
         THEN /\ scanned = <<ScriptDirname>>
              /\ Range(filesToProcess) = HtmlIn(ScriptArticles)
              /\ Len(filesToProcess) = Cardinality(HtmlIn(ScriptArticles))
         ELSE IF pc = "scancwd"
         THEN scanned = <<ScriptDirname>> /\ filesToProcess = <<>>
         ELSE /\ scanned = <<ScriptDirname, Cwd>>
              /\ Range(filesToProcess) = HtmlIn(CwdArticles)
              /\ Len(filesToProcess) = Cardinality(HtmlIn(CwdArticles))
    /\ IsPrefix(calls, filesToProcess)
    /\ (pc = "exited" /\ exitCode = 1 /\ calls = <<>>)
         <=> /\ pc \notin {"main", "scancwd"}
             /\ HtmlIn(ScriptArticles) = {}
             /\ HtmlIn(CwdArticles) = {}

C8_Witness ==
  /\ Len(args) = 0
  /\ fs[ScriptArticles].exists
  /\ fs[ScriptArticles].files = <<NameRaw>>
  /\ Cardinality(HtmlIn(CwdArticles)) = 2
  /\ pc = "exited"
  /\ exitCode = 0
  /\ Len(calls) = 2
  /\ scanned = <<ScriptDirname, Cwd>>

\* C9 as stated: one browser instance is launched over the whole run, and
\* never two are open.
C9_Original ==
  /\ open <= 1
  /\ (pc = "exited" /\ exitCode = 0) => launched = 1

\* C9 (amended): one browser instance is launched per processed file, one
\* after another: the file being processed past its launch holds the only
\* open instance, every earlier file's instance was closed when its elements
\* were done, and a run that ends with status 0 launched as many instances
\* as it has files and left none open; never two instances are open nor two
\* documents in processing.
C9_OneBrowserPerFile ==
  /\ open <= 1
  /\ open = (IF cpc \in {"idle", "mkdir", "launch"} THEN 0 ELSE 1)
  /\ launched = (IF cpc \in {"idle", "mkdir", "launch"}
                 THEN fileIdx - 1 ELSE fileIdx)
  /\ Cardinality({k \in 1..Len(filesToProcess) :
                    FileState(k) \in {"loading", "ready", "capturing"}}) <= 1
  /\ (pc = "exited" /\ exitCode = 0)
       => launched = Len(filesToProcess) /\ open = 0

C9_Witness ==
  /\ pc = "exited"
  /\ exitCode = 0
  /\ Len(filesToProcess) = 2
  /\ launched = 2
  /\ open = 0

====
